---- MODULE Spec2Model ----
(***************************************************************************)
(* Model of the post-trade notebook worst_performance.ipynb of kalshi_bot: *)
(* the credentials loader load_env_vars_from_file (cell 1), the sort of    *)
(* the fills (cell 4), the fill attribution loop (cell 5) and the          *)
(* final-profit loop (cell 7); and of the notebook that cleans a day of    *)
(* market data read from a CSV file.                                       *)
(*                                                                         *)
(* Python strings are modelled as sequences of one-character strings, so   *)
(* that str.split, str.startswith and slicing are computed as Python       *)
(* computes them.                                                          *)
(***************************************************************************)
EXTENDS Integers, Sequences, FiniteSets, TLC

VARIABLES
    script,        \* the lines of the credentials script (path.read_text().splitlines())
    line_no,       \* position of the for loop of load_env_vars_from_file
    environ,       \* os.environ: a function from variable names to values
    loader_pc,     \* "loop", "done" (returned) or "raised" (IndexError)
    fills,         \* the list `fills` of the notebook
    pd,            \* the defaultdict pd: ticker -> ProfitData
    pd_keys,       \* insertion order of pd (the order pd.items() iterates in)
    fill_i,        \* position of the attribution loop `for fill in fills`
    final_profit,  \* the dict final_profit: ticker -> profit
    tick_i,        \* position of the final-profit loop over pd.items()
    last,          \* what the latest iteration of the final-profit loop saw and did
    printed,       \* the tickers cell 5 has printed after "taker fill: "
    pc,            \* the cell the notebook is at
    df,            \* the frame read from the CSV file
    df1,           \* its rows received during market hours
    df2,           \* the trades among them
    df3,           \* their columns ts_recv and price
    high,          \* df3["price"].quantile(0.99)
    low,           \* df3["price"].quantile(0.01)
    df4,           \* the cleaned frame
    clean_pc       \* the statement the cleaning cell is at

vars == <<script, line_no, environ, loader_pc, fills, pd, pd_keys, fill_i,
          final_profit, tick_i, last, printed, pc,
          df, df1, df2, df3, high, low, df4, clean_pc>>

loader_vars == <<script, line_no, environ, loader_pc>>
book_vars ==
    <<fills, pd, pd_keys, fill_i, final_profit, tick_i, last, printed, pc>>
clean_vars == <<df, df1, df2, df3, high, low, df4, clean_pc>>

-----------------------------------------------------------------------------
(* Bounds of the model.                                                    *)

MaxLines == 2
MaxFills == 3
MaxCount == 2
MaxProfitFills == 2
MaxFi == 2

-----------------------------------------------------------------------------
(* Python string operations.                                               *)

\* str.startswith(prefix)
startswith(s, prefix) ==
    /\ Len(s) >= Len(prefix)
    /\ SubSeq(s, 1, Len(prefix)) = prefix

\* str.split(sep) with an explicit one-character separator: the pieces
\* between the separators, empty pieces included, at least one piece.
RECURSIVE SplitFrom(_, _, _, _)
SplitFrom(s, sep, i, piece) ==
    IF i > Len(s) THEN <<piece>>
    ELSE IF s[i] = sep THEN <<piece>> \o SplitFrom(s, sep, i + 1, <<>>)
    ELSE SplitFrom(s, sep, i + 1, Append(piece, s[i]))

split(s, sep) == SplitFrom(s, sep, 1, <<>>)

\* the slice s[1:-1]
StripEnds(s) == IF Len(s) <= 2 THEN <<>> ELSE SubSeq(s, 2, Len(s) - 1)

-----------------------------------------------------------------------------
(* The credentials script.                                                 *)

EXPORT == <<"e", "x", "p", "o", "r", "t">>

\* a line of the README's form: export NAME='VALUE'
ExportLine(name, value) ==
    EXPORT \o <<" ">> \o name \o <<"=", "'">> \o value \o <<"'">>

ShebangLine == <<"#", "!", "/", "b", "i", "n", "/", "s", "h">>
BlankLine == <<>>

\* variable names: U for API_URL, P for API_PASSWORD, H for a variable of the
\* environment that no script names
Names == {<<"U">>, <<"P">>}
OtherName == <<"H">>

PlainValues == {<<"v", "2">>, <<"s">>}
ValueWithEquals == <<"a", "=", "b">>
ValueWithSpace == <<"a", "b", " ", "c">>
Values == PlainValues \cup {ValueWithEquals, ValueWithSpace}

\* lines that start with "export" and have no second field, or no "="
BareExport == EXPORT
ExportNoValue == EXPORT \o <<" ", "U">>

ScriptLines ==
    {ShebangLine, BlankLine, BareExport, ExportNoValue}
        \cup {ExportLine(n, v) : n \in Names, v \in Values}

Scripts == UNION {[1..n -> ScriptLines] : n \in 0..MaxLines}

\* os.environ before the call
Environ0 == (<<"U">> :> <<"o", "l", "d">>) @@ (OtherName :> <<"h">>)

\* os.environ[var_] = value_
SetEnv(env, var_, value_) ==
    [n \in DOMAIN env \cup {var_} |-> IF n = var_ THEN value_ ELSE env[n]]

\* var_to_value[1][1:-1]
value_unstripped(var_to_value) == var_to_value[2]

value_of(var_to_value) == StripEnds(var_to_value[2])

\* line.split(" ")[1].split("="), when line.split(" ") has an index 1
Fields(line) == split(line, " ")
VarToValue(line) == split(Fields(line)[2], "=")

\* the line raises IndexError: [1] of a one-element list
LineRaises(line) ==
    IF ~startswith(line, EXPORT) THEN FALSE
    ELSE IF Len(Fields(line)) < 2 THEN TRUE
    ELSE Len(VarToValue(line)) < 2

\* a line that does not start with "export": nothing happens
LoadSkip ==
    /\ loader_pc = "loop"
    /\ line_no <= Len(script)
    /\ ~startswith(script[line_no], EXPORT)
    /\ line_no' = line_no + 1
    /\ UNCHANGED <<script, environ, loader_pc>>

\* a line that starts with "export": the variable is set
LoadExport ==
    /\ loader_pc = "loop"
    /\ line_no <= Len(script)
    /\ startswith(script[line_no], EXPORT)
    /\ ~LineRaises(script[line_no])
    /\ LET var_to_value == VarToValue(script[line_no])
           var_ == var_to_value[1]
           value_ == value_of(var_to_value)
       IN  environ' = SetEnv(environ, var_, value_)
    /\ line_no' = line_no + 1
    /\ UNCHANGED <<script, loader_pc>>

\* a line that starts with "export" and has no index 1: IndexError leaves the
\* function
LoadRaise ==
    /\ loader_pc = "loop"
    /\ line_no <= Len(script)
    /\ LineRaises(script[line_no])
    /\ loader_pc' = "raised"
    /\ UNCHANGED <<script, line_no, environ>>

\* the for loop is exhausted: the function returns
LoadReturn ==
    /\ loader_pc = "loop"
    /\ line_no > Len(script)
    /\ loader_pc' = "done"
    /\ UNCHANGED <<script, line_no, environ>>

\* `last` before the final-profit loop has run an iteration
NoIteration ==
    [ticker |-> "", positions |-> 0, market |-> "none", fills_raise |-> FALSE,
     fills_empty |-> TRUE, before |-> FALSE, calls |-> <<>>, skipped |-> "",
     written |-> FALSE, errors |-> {}]

\* a quantile that is not a number: not computed yet, or of no prices
NaN == [nan |-> TRUE, v |-> 0]

\* the cleaning cell has not run
CleanIdle ==
    /\ df = <<>>
    /\ df1 = <<>>
    /\ df2 = <<>>
    /\ df3 = <<>>
    /\ high = NaN
    /\ low = NaN
    /\ df4 = <<>>
    /\ clean_pc = "idle"

BookIdle ==
    /\ fills = <<>>
    /\ pd = <<>>
    /\ pd_keys = <<>>
    /\ fill_i = 1
    /\ final_profit = <<>>
    /\ tick_i = 1
    /\ last = NoIteration
    /\ printed = <<>>
    /\ pc = "cell1"

InitEnv ==
    /\ script \in Scripts
    /\ line_no = 1
    /\ environ = Environ0
    /\ loader_pc = "loop"
    /\ BookIdle
    /\ CleanIdle

NextEnv ==
    \/ LoadSkip /\ UNCHANGED <<book_vars, clean_vars>>
    \/ LoadExport /\ UNCHANGED <<book_vars, clean_vars>>
    \/ LoadRaise /\ UNCHANGED <<book_vars, clean_vars>>
    \/ LoadReturn /\ UNCHANGED <<book_vars, clean_vars>>

SpecEnv == InitEnv /\ [][NextEnv]_vars

-----------------------------------------------------------------------------
(* The fills (cells 3 and 4).                                              *)

Tickers == {"HIGHNY", "INX"}
Sides == {"yes", "no"}            \* Side.YES, Side.NO
TradeTypes == {"buy", "sell"}     \* TradeType.BUY, TradeType.SELL

\* `start`, on the model's clock; the fills of cell 3 are those the exchange
\* made at or after it (min_ts)
start == 1
FillTimes == {start, start + 1}
ReplyTimes == {start - 1, start}

YesPrices == {30, 60}

Fills ==
    [ticker : Tickers, side : Sides, action : TradeTypes,
     yes_price : YesPrices, no_price : {100 - y : y \in YesPrices},
     count : 1..MaxCount, created_time : FillTimes, is_taker : BOOLEAN]

\* list.sort(key=lambda x: x.created_time): a stable sort, here by insertion
RECURSIVE InsertByTime(_, _)
InsertByTime(sorted, x) ==
    IF sorted = <<>> THEN <<x>>
    ELSE IF sorted[Len(sorted)].created_time <= x.created_time
         THEN Append(sorted, x)
    ELSE Append(InsertByTime(SubSeq(sorted, 1, Len(sorted) - 1), x),
                sorted[Len(sorted)])

RECURSIVE SortByCreatedTime(_)
SortByCreatedTime(list) ==
    IF list = <<>> THEN <<>>
    ELSE InsertByTime(SortByCreatedTime(SubSeq(list, 1, Len(list) - 1)),
                      list[Len(list)])

\* cell 4
SortFills ==
    /\ pc = "cell4"
    /\ fills' = SortByCreatedTime(fills)
    /\ pc' = "cell5"
    /\ UNCHANGED <<pd, pd_keys, fill_i, final_profit, tick_i, last, printed>>

-----------------------------------------------------------------------------
(* The fill attribution loop (cell 5).                                     *)

\* ProfitData()
NewProfitData == [positions |-> 0, spent |-> 0, made |-> 0]

\* pd[ticker] of the defaultdict: the entry, or a new ProfitData()
Entry(dict, ticker) ==
    IF ticker \in DOMAIN dict THEN dict[ticker] ELSE NewProfitData

put_shared(dict, key, value) == [k \in DOMAIN dict \cup {key} |-> value]

\* dict[key] = value
Put(dict, key, value) ==
    [k \in DOMAIN dict \cup {key} |-> IF k = key THEN value ELSE dict[k]]

Min(a, b) == IF a <= b THEN a ELSE b
abs(a) == IF a < 0 THEN -a ELSE a

buys_whatever_side(fill) == fill.action = "buy"

\* the condition of the if: the fill buys YES or sells NO
BuysYes(fill) ==
    \/ fill.side = "yes" /\ fill.action = "buy"
    \/ fill.side = "no" /\ fill.action = "sell"

attribute_made_whole_count(data, fill) ==
    IF BuysYes(fill)
    THEN [spent |-> data.spent + fill.yes_price * fill.count,
          made |-> IF data.positions < 0
                   THEN data.made + fill.count * 100
                   ELSE data.made,
          positions |-> data.positions + fill.count]
    ELSE [spent |-> data.spent + fill.no_price * fill.count,
          made |-> IF data.positions > 0
                   THEN data.made + fill.count * 100
                   ELSE data.made,
          positions |-> data.positions - fill.count]

attribute_spent_yes_price(data, fill) ==
    IF BuysYes(fill)
    THEN [spent |-> data.spent + fill.yes_price * fill.count,
          made |-> IF data.positions < 0
                   THEN data.made + Min(fill.count, abs(data.positions)) * 100
                   ELSE data.made,
          positions |-> data.positions + fill.count]
    ELSE [spent |-> data.spent + fill.yes_price * fill.count,
          made |-> IF data.positions > 0
                   THEN data.made + Min(fill.count, abs(data.positions)) * 100
                   ELSE data.made,
          positions |-> data.positions - fill.count]

attribute_made_when_closed_out(data, fill) ==
    IF BuysYes(fill)
    THEN [spent |-> data.spent + fill.yes_price * fill.count,
          made |-> IF data.positions < 0 /\ fill.count >= abs(data.positions)
                   THEN data.made + abs(data.positions) * 100
                   ELSE data.made,
          positions |-> data.positions + fill.count]
    ELSE [spent |-> data.spent + fill.no_price * fill.count,
          made |-> IF data.positions > 0 /\ fill.count >= abs(data.positions)
                   THEN data.made + abs(data.positions) * 100
                   ELSE data.made,
          positions |-> data.positions - fill.count]

attribute_makers_only(data, fill) ==
    IF fill.is_taker THEN data
    ELSE IF BuysYes(fill)
    THEN [spent |-> data.spent + fill.yes_price * fill.count,
          made |-> IF data.positions < 0
                   THEN data.made + Min(fill.count, abs(data.positions)) * 100
                   ELSE data.made,
          positions |-> data.positions + fill.count]
    ELSE [spent |-> data.spent + fill.no_price * fill.count,
          made |-> IF data.positions > 0
                   THEN data.made + Min(fill.count, abs(data.positions)) * 100
                   ELSE data.made,
          positions |-> data.positions - fill.count]

\* the body of the loop, on the ProfitData of the fill's ticker
Attribute(data, fill) ==
    IF BuysYes(fill)
    THEN [spent |-> data.spent + fill.yes_price * fill.count,
          made |-> IF data.positions < 0
                   THEN data.made + Min(fill.count, abs(data.positions)) * 100
                   ELSE data.made,
          positions |-> data.positions + fill.count]
    ELSE [spent |-> data.spent + fill.no_price * fill.count,
          made |-> IF data.positions > 0
                   THEN data.made + Min(fill.count, abs(data.positions)) * 100
                   ELSE data.made,
          positions |-> data.positions - fill.count]

\* one iteration of `for fill in fills`
AttributeFill ==
    /\ pc = "cell5"
    /\ fill_i <= Len(fills)
    /\ LET fill == fills[fill_i] IN
        /\ pd' = Put(pd, fill.ticker, Attribute(Entry(pd, fill.ticker), fill))
        /\ pd_keys' = IF fill.ticker \in DOMAIN pd THEN pd_keys
                      ELSE Append(pd_keys, fill.ticker)
    /\ printed' = IF fills[fill_i].is_taker = TRUE
                  THEN Append(printed, fills[fill_i].ticker)
                  ELSE printed
    /\ fill_i' = fill_i + 1
    /\ UNCHANGED <<fills, final_profit, tick_i, last, pc>>

LoaderIdle ==
    /\ script = <<>>
    /\ line_no = 1
    /\ environ = Environ0
    /\ loader_pc = "done"

\* the notebook after cell 3: the exchange has returned the fills since start
InitFills(domain, n) ==
    /\ LoaderIdle
    /\ fills \in UNION {[1..k -> domain] : k \in 0..n}
    /\ pd = <<>>
    /\ pd_keys = <<>>
    /\ fill_i = 1
    /\ final_profit = <<>>
    /\ tick_i = 1
    /\ last = NoIteration
    /\ printed = <<>>
    /\ pc = "cell4"
    /\ CleanIdle

\* what a YES contract of each market trades at
YesPriceOf(ticker) == IF ticker = "INX" THEN 60 ELSE 30

\* the fills whose prices are the market's prices: yes_price + no_price = 100
PricedFills == {f \in Fills : /\ f.yes_price = YesPriceOf(f.ticker)
                              /\ f.no_price = 100 - f.yes_price}

\* the fills the attribution specification draws from: every side, action,
\* count and ticker, all made at the start time, none a taker fill
AttrFills == {f \in PricedFills : f.created_time = start /\ ~f.is_taker}

\* the fills the final-profit specification draws from: every action, count
\* and ticker, all on the YES side, made at the start time, none a taker fill
ProfitFills == {f \in AttrFills : f.side = "yes"}

\* the fills the ordering specification draws from: every action, count,
\* ticker and time, all on the YES side, none a taker fill
OrderFills == {f \in PricedFills : f.side = "yes" /\ ~f.is_taker}

InitAttr == InitFills(AttrFills, MaxFills)

NextAttr ==
    \/ SortFills /\ UNCHANGED <<loader_vars, clean_vars>>
    \/ AttributeFill /\ UNCHANGED <<loader_vars, clean_vars>>

SpecAttr == InitAttr /\ [][NextAttr]_vars

InitOrder == InitFills(OrderFills, MaxFills)

SpecOrder == InitOrder /\ [][NextAttr]_vars

-----------------------------------------------------------------------------
(* The final-profit loop (cell 7).                                         *)

\* m.result: MarketResult.YES, MarketResult.NO, or not settled
MarketResults == {"yes", "no", ""}

\* what e.get_market(ticker) does: it raises, or returns a market
MarketReplies == {"raise"} \cup MarketResults

\* what e.get_fills(GetFillsRequest(ticker=ticker)) does: it raises, or
\* returns the fills of the ticker, in any order; the ticker traded before
\* `start` exactly when one of them was created before `start`
FillReplies(before) ==
    {[raises |-> TRUE, fi |-> <<>>]}
        \cup {[raises |-> FALSE, fi |-> fi] :
                fi \in {x \in UNION {[1..k -> [created_time : ReplyTimes]] :
                                        k \in 0..MaxFi} :
                            before <=> \E i \in 1..Len(x) :
                                            x[i].created_time < start}}

\* fi.sort(...); len(fi) > 0 and fi[0].created_time < start
first_unsorted(fi) == fi[1]

first_fill(fi) == SortByCreatedTime(fi)[1]

HadFillsBeforeStart(fi) ==
    IF Len(fi) > 0 THEN first_fill(fi).created_time < start ELSE FALSE

settle_pays_any_position(profit, data, result) ==
    IF result = "no"
    THEN [settled |-> TRUE,
          profit |-> IF data.positions < 0
                     THEN profit + abs(data.positions) * 100 ELSE profit]
    ELSE IF result = "yes"
    THEN [settled |-> TRUE, profit |-> profit + abs(data.positions) * 100]
    ELSE [settled |-> FALSE, profit |-> profit]

settle_long_only(profit, data, result) ==
    IF result = "no"
    THEN [settled |-> TRUE, profit |-> profit]
    ELSE IF result = "yes"
    THEN [settled |-> TRUE,
          profit |-> IF data.positions > 0
                     THEN profit + abs(data.positions) * 100 ELSE profit]
    ELSE [settled |-> FALSE, profit |-> profit]

\* the if/elif/else on m.result: the profit with the payout of the
\* settlement, and whether the market is settled
Settle(profit, data, result) ==
    IF result = "no"
    THEN [settled |-> TRUE,
          profit |-> IF data.positions < 0
                     THEN profit + abs(data.positions) * 100 ELSE profit]
    ELSE IF result = "yes"
    THEN [settled |-> TRUE,
          profit |-> IF data.positions > 0
                     THEN profit + abs(data.positions) * 100 ELSE profit]
    ELSE [settled |-> FALSE, profit |-> profit]

iteration_queries_first(data, market, reply) ==
    LET profit == data.made - data.spent IN
    IF data.positions = 0
    THEN [written |-> TRUE, profit |-> profit,
          calls |-> <<"get_market", "get_fills">>, skipped |-> ""]
    ELSE IF market = "raise"
    THEN [written |-> FALSE, profit |-> profit, calls |-> <<"get_market">>,
          skipped |-> "exchange error"]
    ELSE IF reply.raises
    THEN [written |-> FALSE, profit |-> profit,
          calls |-> <<"get_market", "get_fills">>,
          skipped |-> "exchange error"]
    ELSE IF HadFillsBeforeStart(reply.fi)
    THEN [written |-> FALSE, profit |-> profit,
          calls |-> <<"get_market", "get_fills">>,
          skipped |-> "fills before start"]
    ELSE LET s == Settle(profit, data, market) IN
         [written |-> s.settled, profit |-> s.profit,
          calls |-> <<"get_market", "get_fills">>,
          skipped |-> IF s.settled THEN "" ELSE "not settled"]

\* the body of the loop for one (ticker, data): whether final_profit[ticker]
\* is written, with what, which exchange calls were made, and why the
\* ticker was skipped
Iteration(data, market, reply) ==
    LET profit == data.made - data.spent IN
    IF data.positions = 0
    THEN [written |-> TRUE, profit |-> profit, calls |-> <<>>, skipped |-> ""]
    ELSE IF market = "raise"
    THEN [written |-> FALSE, profit |-> profit, calls |-> <<"get_market">>,
          skipped |-> "exchange error"]
    ELSE IF reply.raises
    THEN [written |-> FALSE, profit |-> profit,
          calls |-> <<"get_market", "get_fills">>,
          skipped |-> "exchange error"]
    ELSE IF HadFillsBeforeStart(reply.fi)
    THEN [written |-> FALSE, profit |-> profit,
          calls |-> <<"get_market", "get_fills">>,
          skipped |-> "fills before start"]
    ELSE LET s == Settle(profit, data, market) IN
         [written |-> s.settled, profit |-> s.profit,
          calls |-> <<"get_market", "get_fills">>,
          skipped |-> IF s.settled THEN "" ELSE "not settled"]

\* where the notebook is after an iteration: `continue` and the end of the
\* body both go on with the next ticker
abort_on_error(outcome) ==
    IF outcome.skipped = "exchange error" THEN "aborted" ELSE "cell7"

AfterIteration(outcome) == "cell7"

\* the attribution loop is over; cell 7 begins: final_profit = dict()
StartFinalProfit ==
    /\ pc = "cell5"
    /\ fill_i > Len(fills)
    /\ final_profit' = <<>>
    /\ tick_i' = 1
    /\ pc' = "cell7"
    /\ UNCHANGED <<fills, pd, pd_keys, fill_i, last, printed>>

\* the replies an iteration can see: no call is made for a flat position,
\* and get_fills is not called once get_market has raised
NotCalled == [raises |-> FALSE, fi |-> <<>>]

MarketRepliesFor(data) ==
    IF data.positions = 0 THEN {"none"} ELSE MarketReplies

FillRepliesFor(data, market, before) ==
    IF data.positions = 0 \/ market = "raise" THEN {NotCalled}
    ELSE FillReplies(before)

\* one iteration of `for ticker, data in pd.items()`, the exchange replying
\* as it will; `before` is whether the ticker traded before `start`
FinalProfitStep ==
    /\ pc = "cell7"
    /\ tick_i <= Len(pd_keys)
    /\ \E before \in BOOLEAN :
       \E market \in MarketRepliesFor(pd[pd_keys[tick_i]]) :
       \E reply \in FillRepliesFor(pd[pd_keys[tick_i]], market, before) :
        LET ticker == pd_keys[tick_i]
            data == pd[ticker]
            outcome == Iteration(data, market, reply)
        IN  /\ final_profit' = IF outcome.written
                               THEN Put(final_profit, ticker, outcome.profit)
                               ELSE final_profit
            /\ last' = [ticker |-> ticker, positions |-> data.positions,
                        market |-> market, fills_raise |-> reply.raises,
                        fills_empty |-> (reply.fi = <<>>),
                        before |-> before, calls |-> outcome.calls,
                        skipped |-> outcome.skipped,
                        written |-> outcome.written,
                        errors |-> IF market = "raise" \/ reply.raises
                                   THEN last.errors \cup {ticker}
                                   ELSE last.errors]
            /\ pc' = AfterIteration(outcome)
    /\ tick_i' = tick_i + 1
    /\ UNCHANGED <<fills, pd, pd_keys, fill_i, printed>>

\* pd.items() is exhausted
FinishFinalProfit ==
    /\ pc = "cell7"
    /\ tick_i > Len(pd_keys)
    /\ pc' = "done"
    /\ UNCHANGED <<fills, pd, pd_keys, fill_i, final_profit, tick_i, last,
                   printed>>

InitProfit == InitFills(ProfitFills, MaxProfitFills)

\* the fills the taker specification draws from: taker and maker fills, every
\* action and ticker, all of one contract on the YES side at the start time
TakerFills == {f \in PricedFills :
                /\ f.side = "yes" /\ f.created_time = start /\ f.count = 1}

InitTaker == InitFills(TakerFills, MaxProfitFills)

NextProfit ==
    \/ SortFills /\ UNCHANGED <<loader_vars, clean_vars>>
    \/ AttributeFill /\ UNCHANGED <<loader_vars, clean_vars>>
    \/ StartFinalProfit /\ UNCHANGED <<loader_vars, clean_vars>>
    \/ FinalProfitStep /\ UNCHANGED <<loader_vars, clean_vars>>
    \/ FinishFinalProfit /\ UNCHANGED <<loader_vars, clean_vars>>

SpecProfit == InitProfit /\ [][NextProfit]_vars

SpecTaker == InitTaker /\ [][NextProfit]_vars

-----------------------------------------------------------------------------
(* The cleaning of a day of market data read from a CSV file.              *)

MaxRows == 3

\* ts_recv is an int64 count of nanoseconds; the model counts it from the
\* market open of the day of the data. The two ends of the market hours are
\* floats: timestamp() * 1e9, a whole number of seconds times 1e9, which a
\* float64 holds exactly and which is an even multiple of Ulp. The model's
\* market day is 2 * Ulp long.
market_open_full_datetime_ns == 0
market_close_full_datetime_ns == 512

\* the distance between two neighbouring float64 between 2^60 and 2^61,
\* where the epoch nanoseconds of the years 2006 to 2043 are
Ulp == 256

\* an int64 as the float64 a comparison with a float turns it into: the
\* nearest multiple of Ulp, the even one of two that are equally near
float64(n) ==
    LET q == n \div Ulp
        r == n % Ulp
    IN  IF 2 * r < Ulp THEN q * Ulp
        ELSE IF 2 * r > Ulp THEN (q + 1) * Ulp
        ELSE IF q % 2 = 0 THEN q * Ulp
        ELSE (q + 1) * Ulp

normalize == FALSE

RecvTimes ==
    {market_open_full_datetime_ns - 200, market_open_full_datetime_ns - 100,
     market_open_full_datetime_ns, market_close_full_datetime_ns,
     market_close_full_datetime_ns + 100}
Prices == 1..3

\* the rows of the file: trades ("T") at any time and price, and an order
\* added ("A") during market hours
CsvRows ==
    [ts_recv : RecvTimes, price : Prices, action : {"T"}]
        \cup [ts_recv : {market_open_full_datetime_ns}, price : {2},
              action : {"A"}]

\* pd.read_csv: the rows under the labels 0, 1, ... of a RangeIndex.
\* df.iloc[0] is read, so the file has a row.
read_csv(rows) == [i \in 1..Len(rows) |-> [label |-> i - 1, row |-> rows[i]]]
Frames == {read_csv(rows) : rows \in UNION {[1..k -> CsvRows] : k \in 1..MaxRows}}

\* market_open_full_datetime_ns <= df["ts_recv"]
\*   & df["ts_recv"] <= market_close_full_datetime_ns, on one row: the
\* int64 column is compared with a float, as float64
InMarketHours(ts_recv) ==
    /\ market_open_full_datetime_ns <= float64(ts_recv)
    /\ float64(ts_recv) <= market_close_full_datetime_ns

IsTrade(action) == action = "T"

columns_to_keep == {"ts_recv", "price"}

\* pd.to_datetime(ns, unit="ns"): a Timestamp without a time zone
to_datetime(ns) == [ns |-> ns, tz |-> "naive"]

\* time.tz_localize(utc_tz).tz_convert(eastern_tz): the same instant
localize(time) == [ns |-> time.ns, tz |-> "US/Eastern"]

RECURSIVE InsertNumber(_, _)
InsertNumber(sorted, x) ==
    IF sorted = <<>> THEN <<x>>
    ELSE IF sorted[Len(sorted)] <= x THEN Append(sorted, x)
    ELSE Append(InsertNumber(SubSeq(sorted, 1, Len(sorted) - 1), x),
                sorted[Len(sorted)])

RECURSIVE SortNumbers(_)
SortNumbers(list) ==
    IF list = <<>> THEN <<>>
    ELSE InsertNumber(SortNumbers(SubSeq(list, 1, Len(list) - 1)),
                      list[Len(list)])

PricesOf(frame) == [i \in 1..Len(frame) |-> frame[i].row.price]

\* Series.quantile(pct / 100), linear interpolation between the two order
\* statistics around position (n - 1) * pct / 100; the value is kept in
\* hundredths of a price. NaN for an empty series.
quantile(values, pct) ==
    IF values = <<>> THEN NaN
    ELSE LET sorted == SortNumbers(values)
             pos == pct * (Len(values) - 1)
             lo == pos \div 100 + 1
             hi == IF pos % 100 = 0 THEN lo ELSE lo + 1
         IN  [nan |-> FALSE,
              v |-> 100 * sorted[lo]
                        + (pos % 100) * (sorted[hi] - sorted[lo])]

\* price < q and price > q; a comparison with NaN is False
Below(price, q) == ~q.nan /\ 100 * price < q.v
Above(price, q) == ~q.nan /\ 100 * price > q.v

InBand(price, hi, lo) == Below(price, hi) /\ Above(price, lo)

\* MinMaxScaler().fit_transform: (price - min) / (max - min), as a fraction
fit_transform(frame) ==
    LET sorted == SortNumbers(PricesOf(frame))
    IN  [i \in 1..Len(frame) |->
            [frame[i] EXCEPT !.row.price =
                [num |-> @ - sorted[1],
                 den |-> sorted[Len(sorted)] - sorted[1]]]]

\* df1 = df[(open <= df["ts_recv"]) & (df["ts_recv"] <= close)]
FilterMarketHours ==
    /\ clean_pc = "df1"
    /\ df1' = SelectSeq(df, LAMBDA e : InMarketHours(e.row.ts_recv))
    /\ clean_pc' = "df2"
    /\ UNCHANGED <<df, df2, df3, high, low, df4>>

\* df2 = df1[df1["action"] == "T"]
FilterTrades ==
    /\ clean_pc = "df2"
    /\ df2' = SelectSeq(df1, LAMBDA e : IsTrade(e.row.action))
    /\ clean_pc' = "df3"
    /\ UNCHANGED <<df, df1, df3, high, low, df4>>

\* df3 = df2[columns_to_keep]
KeepColumns ==
    /\ clean_pc = "df3"
    /\ df3' = [i \in 1..Len(df2) |->
                [label |-> df2[i].label,
                 row |-> [c \in columns_to_keep |-> df2[i].row[c]]]]
    /\ clean_pc' = "to_datetime"
    /\ UNCHANGED <<df, df1, df2, high, low, df4>>

\* df3["ts_recv"] = pd.to_datetime(df3["ts_recv"], unit="ns")
ToDatetime ==
    /\ clean_pc = "to_datetime"
    /\ df3' = [i \in 1..Len(df3) |->
                [df3[i] EXCEPT !.row.ts_recv = to_datetime(@)]]
    /\ clean_pc' = "quantile"
    /\ UNCHANGED <<df, df1, df2, high, low, df4>>

\* high = df3["price"].quantile(0.99); low = df3["price"].quantile(0.01)
Quantiles ==
    /\ clean_pc = "quantile"
    /\ high' = quantile(PricesOf(df3), 99)
    /\ low' = quantile(PricesOf(df3), 1)
    /\ clean_pc' = "df4"
    /\ UNCHANGED <<df, df1, df2, df3, df4>>

\* df4 = df3[(df3["price"] < high) & (df3["price"] > low)], and the
\* normalisation that follows it
FilterOutliers ==
    /\ clean_pc = "df4"
    /\ LET kept == SelectSeq(df3, LAMBDA e : InBand(e.row.price, high, low))
       IN  df4' = IF normalize THEN fit_transform(kept) ELSE kept
    /\ clean_pc' = "localize"
    /\ UNCHANGED <<df, df1, df2, df3, high, low>>

\* df4["ts_recv"] = df4["ts_recv"].apply(lambda time: ...)
Localize ==
    /\ clean_pc = "localize"
    /\ df4' = [i \in 1..Len(df4) |->
                [df4[i] EXCEPT !.row.ts_recv = localize(@)]]
    /\ clean_pc' = "done"
    /\ UNCHANGED <<df, df1, df2, df3, high, low>>

\* the cell after read_csv and the computation of the market hours
InitClean ==
    /\ LoaderIdle
    /\ BookIdle
    /\ df \in Frames
    /\ df1 = <<>>
    /\ df2 = <<>>
    /\ df3 = <<>>
    /\ high = NaN
    /\ low = NaN
    /\ df4 = <<>>
    /\ clean_pc = "df1"

NextClean ==
    \/ FilterMarketHours /\ UNCHANGED <<loader_vars, book_vars>>
    \/ FilterTrades /\ UNCHANGED <<loader_vars, book_vars>>
    \/ KeepColumns /\ UNCHANGED <<loader_vars, book_vars>>
    \/ ToDatetime /\ UNCHANGED <<loader_vars, book_vars>>
    \/ Quantiles /\ UNCHANGED <<loader_vars, book_vars>>
    \/ FilterOutliers /\ UNCHANGED <<loader_vars, book_vars>>
    \/ Localize /\ UNCHANGED <<loader_vars, book_vars>>

SpecClean == InitClean /\ [][NextClean]_vars

-----------------------------------------------------------------------------
(* Reference sums over the fills, for the claims about the notebook.       *)

\* the long direction: (YES, BUY) or (NO, SELL)
IsLong(f) == <<f.side, f.action>> \in {<<"yes", "buy">>, <<"no", "sell">>}

Amount(f, what) ==
    CASE what = "long count" -> IF IsLong(f) THEN f.count ELSE 0
      [] what = "short count" -> IF IsLong(f) THEN 0 ELSE f.count
      [] what = "long yes" -> IF IsLong(f) THEN f.yes_price * f.count ELSE 0
      [] what = "short yes" -> IF IsLong(f) THEN 0 ELSE f.yes_price * f.count
      [] what = "short no" -> IF IsLong(f) THEN 0 ELSE f.no_price * f.count

\* the sum of an amount over the ticker's fills among the first n of a list
RECURSIVE Total(_, _, _, _)
Total(list, ticker, n, what) ==
    IF n = 0 THEN 0
    ELSE Total(list, ticker, n - 1, what)
            + (IF list[n].ticker = ticker THEN Amount(list[n], what) ELSE 0)

\* the number of fills the attribution loop has processed
Processed == fill_i - 1

Seen(ticker) == \E i \in 1..Processed : fills[i].ticker = ticker

\* the attribution loop run over a whole list, from an empty pd
RECURSIVE AttributeAll(_)
AttributeAll(list) ==
    IF list = <<>> THEN <<>>
    ELSE LET before == AttributeAll(SubSeq(list, 1, Len(list) - 1))
             fill == list[Len(list)]
         IN  Put(before, fill.ticker,
                 Attribute(Entry(before, fill.ticker), fill))

Orders(n) == {p \in [1..n -> 1..n] : \A i, j \in 1..n : p[i] = p[j] => i = j}

Reordered(list, p) == [i \in 1..Len(list) |-> list[p[i]]]

-----------------------------------------------------------------------------
(* C1: an exchange failure skips the ticker and nothing else.              *)

ExchangeRaised(it) == it.market = "raise" \/ it.fills_raise

\* C1: when e.get_market or e.get_fills raises for a ticker with a non-zero
\* position, the ticker gets no entry in final_profit, the entries already
\* written stay as they are, and the loop goes on: it ends only when every
\* ticker of pd has been gone through, so that a later ticker with a flat
\* position always gets its entry.
C1_ErrorSkipsOneTicker ==
    /\ [][(pc = "cell7" /\ tick_i' = tick_i + 1 /\ ExchangeRaised(last'))
            => /\ last'.positions # 0
               /\ final_profit' = final_profit
               /\ last'.ticker \notin DOMAIN final_profit'
               /\ pc' = "cell7"]_vars
    /\ [](pc \notin {"cell4", "cell5", "cell7"} =>
            /\ pc = "done"
            /\ tick_i = Len(pd_keys) + 1
            /\ \A t \in DOMAIN pd :
                    pd[t].positions = 0 => t \in DOMAIN final_profit)

\* C1 witness: the loop is over, the exchange raised for the first ticker,
\* which has no entry, and the second ticker was still evaluated and written.
C1_Witness ==
    /\ pc = "done"
    /\ Len(pd_keys) = 2
    /\ pd_keys[1] \in last.errors
    /\ pd[pd_keys[1]].positions # 0
    /\ pd_keys[1] \notin DOMAIN final_profit
    /\ pd_keys[2] \in DOMAIN final_profit
    /\ pd[pd_keys[2]].positions # 0

-----------------------------------------------------------------------------
(* C5: final_profit against the cash flows.                                *)

\* what the fills of a ticker paid and received, plus what the position
\* pays at settlement
CashFlow(ticker, result) ==
    LET n == Len(fills)
        positions == Total(fills, ticker, n, "long count")
                        - Total(fills, ticker, n, "short count")
    IN  Total(fills, ticker, n, "short yes")
            - Total(fills, ticker, n, "long yes")
            + (IF result = "yes" THEN 100 * positions ELSE 0)

-----------------------------------------------------------------------------
(* C6 - C10: the fill attribution loop.                                    *)

LongCount(ticker) == Total(fills, ticker, Processed, "long count")
ShortCount(ticker) == Total(fills, ticker, Processed, "short count")

\* an iteration of the attribution loop is being taken
AttributeStep == pc = "cell5" /\ fill_i' = fill_i + 1

\* C6: after any number of fills, pd[ticker].positions is the sum of count
\* over the ticker's (YES,BUY) and (NO,SELL) fills minus the sum of count
\* over its other fills; a ticker never seen has no entry (positions 0).
C6_NetPosition ==
    \A t \in Tickers :
        /\ Entry(pd, t).positions = LongCount(t) - ShortCount(t)
        /\ t \in DOMAIN pd <=> Seen(t)

\* C6 witness: three fills of one ticker are processed, a (NO,SELL) and a
\* (NO,BUY) among them, and the position is short.
C6_Witness ==
    /\ Processed = 3
    /\ \E t \in DOMAIN pd :
        /\ pd[t].positions < 0
        /\ \E i, j \in 1..3 :
            /\ fills[i].ticker = t /\ fills[j].ticker = t
            /\ fills[i].side = "no" /\ fills[i].action = "sell"
            /\ fills[j].side = "no" /\ fills[j].action = "buy"

\* C7: after any number of fills, pd[ticker].made is 100 times the contracts
\* closed, 100 * min(long count, short count); each fill adds
\* 100 * min(fill.count, |positions before|) when it is opposite to a
\* non-zero position, and nothing otherwise.
C7_MadeIsClosedContracts ==
    /\ [](\A t \in Tickers :
            Entry(pd, t).made = 100 * Min(LongCount(t), ShortCount(t)))
    /\ [][AttributeStep =>
            LET f == fills[fill_i]
                before == Entry(pd, f.ticker).positions
                opposite == \/ IsLong(f) /\ before < 0
                            \/ ~IsLong(f) /\ before > 0
            IN  Entry(pd', f.ticker).made - Entry(pd, f.ticker).made
                    = IF opposite THEN 100 * Min(f.count, abs(before)) ELSE 0
         ]_vars

\* C7 witness: a position was opened, then turned over by a larger opposite
\* fill, then closed by a third fill: two closings made 100 each.
C7_Witness ==
    /\ Processed = 3
    /\ \E t \in DOMAIN pd :
        /\ \A i \in 1..3 : fills[i].ticker = t
        /\ IsLong(fills[1]) /\ fills[1].count = 1
        /\ ~IsLong(fills[2]) /\ fills[2].count = 2
        /\ IsLong(fills[3]) /\ fills[3].count = 1
        /\ pd[t].made = 200
        /\ pd[t].positions = 0

\* C8: pd[ticker].spent never decreases, every fill adds its price times its
\* count to it, and after any number of fills it is the sum of
\* yes_price*count over the ticker's (YES,BUY)/(NO,SELL) fills plus the sum
\* of no_price*count over its other fills.
C8_SpentIsSumOfPrices ==
    /\ [](\A t \in Tickers :
            Entry(pd, t).spent
                = Total(fills, t, Processed, "long yes")
                    + Total(fills, t, Processed, "short no"))
    /\ [][AttributeStep =>
            LET f == fills[fill_i] IN
            /\ \A t \in Tickers : Entry(pd', t).spent >= Entry(pd, t).spent
            /\ Entry(pd', f.ticker).spent - Entry(pd, f.ticker).spent
                    = (IF IsLong(f) THEN f.yes_price ELSE f.no_price) * f.count
            /\ Entry(pd', f.ticker).spent > Entry(pd, f.ticker).spent
         ]_vars

\* C8 witness: an opening (YES,BUY) and a closing (YES,SELL) of one ticker
\* are processed and both are in spent.
C8_Witness ==
    /\ Processed = 2
    /\ fills[1].ticker = "HIGHNY" /\ fills[2].ticker = "HIGHNY"
    /\ fills[1].side = "yes" /\ fills[1].action = "buy" /\ fills[1].count = 2
    /\ fills[2].side = "yes" /\ fills[2].action = "sell" /\ fills[2].count = 1
    /\ pd["HIGHNY"].spent = 2 * 30 + 1 * 70

\* C9: when the loop is over, pd is what the loop gives on every other order
\* of the same fills, the order before the sort among them: positions, spent
\* and made of every ticker are the same.
C9_OrderIndependent ==
    (pc = "cell5" /\ fill_i > Len(fills)) =>
        \A p \in Orders(Len(fills)) : AttributeAll(Reordered(fills, p)) = pd

\* C9 witness: the loop is over on three fills of one ticker, not all made
\* at one time, where a sell larger than the position came between two buys.
C9_Witness ==
    /\ pc = "cell5"
    /\ Len(fills) = 3
    /\ fill_i > Len(fills)
    /\ \A i \in 1..3 : fills[i].ticker = "INX"
    /\ fills[1].created_time < fills[3].created_time
    /\ fills[1].action = "buy" /\ fills[1].count = 1
    /\ fills[2].action = "sell" /\ fills[2].count = 2
    /\ fills[3].action = "buy" /\ fills[3].count = 2
    /\ pd["INX"].made = 200

\* C10: processing a fill changes the ProfitData of its ticker only: the
\* entry of every other ticker is as it was, and no entry is made for any
\* other ticker.
C10_OnlyOwnTicker ==
    [][AttributeStep =>
        \A t \in Tickers \ {fills[fill_i].ticker} :
            /\ t \in DOMAIN pd' <=> t \in DOMAIN pd
            /\ t \in DOMAIN pd => pd'[t] = pd[t]
      ]_vars

\* C10 witness: a fill of one ticker was processed while the other ticker
\* had an entry, which is still what its own fill made it.
C10_Witness ==
    /\ Processed = 2
    /\ fills[1].ticker = "INX" /\ fills[2].ticker = "HIGHNY"
    /\ DOMAIN pd = {"INX", "HIGHNY"}
    /\ pd["INX"] = Attribute(NewProfitData, fills[1])

-----------------------------------------------------------------------------
(* C11: the is_taker flag.                                                 *)

\* the same fills with other is_taker flags
Flags(n) == [1..n -> BOOLEAN]

WithFlags(list, flags) ==
    [i \in 1..Len(list) |-> [list[i] EXCEPT !.is_taker = flags[i]]]

\* the tickers of the taker fills among the first n fills, in order
RECURSIVE TakerTickers(_)
TakerTickers(n) ==
    IF n = 0 THEN <<>>
    ELSE IF fills[n].is_taker THEN Append(TakerTickers(n - 1), fills[n].ticker)
    ELSE TakerTickers(n - 1)

\* a reply of get_fills with the same outcome and the same earliest fill as
\* the one the latest iteration got
SameReply(it) ==
    [raises |-> it.fills_raise,
     fi |-> IF it.before THEN <<[created_time |-> start - 1]>>
            ELSE IF it.fills_empty THEN <<>>
            ELSE <<[created_time |-> start]>>]

\* C11: a run over fills that differ only in their is_taker flags ends the
\* attribution loop with the same pd, and its final-profit loop, given the
\* same exchange replies, writes the same final_profit entry (or none) for
\* each ticker; all the flag does is print the ticker.
C11_TakerFlagOnlyPrints ==
    /\ printed = TakerTickers(Processed)
    /\ fill_i > Len(fills) =>
        \A flags \in Flags(Len(fills)) :
            LET other == AttributeAll(WithFlags(fills, flags)) IN
            /\ other = pd
            /\ (pc \in {"cell7", "done"} /\ last.ticker # "") =>
                LET o == Iteration(other[last.ticker], last.market,
                                   SameReply(last))
                IN  /\ o.written = last.written
                    /\ o.written <=> last.ticker \in DOMAIN final_profit
                    /\ o.written => final_profit[last.ticker] = o.profit

\* C11 witness: a taker buy and a maker sell of one ticker, and a taker sell
\* of the other, were attributed; the taker tickers were printed, and the
\* final-profit loop has written the entry of a short position settled NO.
C11_Witness ==
    /\ pc = "cell7"
    /\ Len(fills) = 2
    /\ fills[1].is_taker /\ ~fills[2].is_taker
    /\ fills[1].ticker # fills[2].ticker
    /\ fills[1].action = "sell"
    /\ printed = <<fills[1].ticker>>
    /\ last.ticker = fills[1].ticker
    /\ last.market = "no"
    /\ last.written
    /\ final_profit[last.ticker] = 100 - 70

-----------------------------------------------------------------------------
(* C12 - C15: the final-profit loop.                                       *)

C13_NoEntryIfTradedBefore ==
    (pc \in {"cell7", "done"} /\ last.ticker # "" /\ last.before)
        => last.ticker \notin DOMAIN final_profit

\* the exchange calls of the latest iteration were made and both returned
CallsSucceeded(it) ==
    /\ it.calls = <<"get_market", "get_fills">>
    /\ it.market # "raise"
    /\ ~it.fills_raise

\* C14: for a ticker with a non-zero position whose exchange calls succeed,
\* the ticker is excluded by the pre-start check exactly when one of the
\* fills returned, wherever it is in the list, was created strictly before
\* start; an empty list, or fills that are all at start or later, do not
\* exclude it, and it is then written when its market is settled.
C14_EarliestFillDecides ==
    (/\ pc \in {"cell7", "done"}
     /\ last.ticker # ""
     /\ pd[last.ticker].positions # 0
     /\ CallsSucceeded(last))
        => /\ last.skipped = "fills before start" <=> last.before
           /\ last.before => last.ticker \notin DOMAIN final_profit
           /\ last.fills_empty => last.skipped # "fills before start"
           /\ (~last.before /\ last.market \in {"yes", "no"})
                => last.ticker \in DOMAIN final_profit

\* C14 witness: a ticker with a position, whose calls succeeded and whose
\* fills include one before start, was excluded by the pre-start check.
C14_Witness ==
    /\ pc = "cell7"
    /\ last.ticker # ""
    /\ pd[last.ticker].positions # 0
    /\ CallsSucceeded(last)
    /\ last.before
    /\ ~last.fills_empty
    /\ last.market = "yes"
    /\ last.skipped = "fills before start"
    /\ last.ticker \notin DOMAIN final_profit

\* C15: for a ticker with a non-zero position that is settled and not
\* skipped, final_profit[ticker] is made - spent + 100 * |positions| when
\* the result is YES and positions > 0 or the result is NO and
\* positions < 0, and made - spent when the position is on the losing side.
C15_SettlementPayout ==
    (/\ pc \in {"cell7", "done"}
     /\ last.ticker # ""
     /\ pd[last.ticker].positions # 0
     /\ CallsSucceeded(last)
     /\ ~last.before
     /\ last.market \in {"yes", "no"})
        => LET data == pd[last.ticker]
               wins == \/ last.market = "yes" /\ data.positions > 0
                       \/ last.market = "no" /\ data.positions < 0
           IN  /\ last.ticker \in DOMAIN final_profit
               /\ final_profit[last.ticker]
                    = IF wins
                      THEN data.made - data.spent + 100 * abs(data.positions)
                      ELSE data.made - data.spent

\* C15 witness: a short position of two contracts in a market settled YES is
\* on the losing side and is written with made - spent.
C15_Witness ==
    /\ pc = "cell7"
    /\ last.ticker # ""
    /\ pd[last.ticker].positions = -2
    /\ CallsSucceeded(last)
    /\ last.market = "yes"
    /\ last.ticker \in DOMAIN final_profit
    /\ final_profit[last.ticker]
            = pd[last.ticker].made - pd[last.ticker].spent

-----------------------------------------------------------------------------
(* C16: the cleaned market data.                                           *)

\* the row of the file a row of a frame comes from
Source(e) == df[e.label + 1].row

Labels(frame) == {frame[i].label : i \in 1..Len(frame)}

Cleaned == clean_pc \in {"localize", "done"}

\* the closed interval [market open, market close], in nanoseconds
WithinMarketHours(ts_recv) ==
    /\ market_open_full_datetime_ns <= ts_recv
    /\ ts_recv <= market_close_full_datetime_ns

\* the trade prices of the file that `window` lets in
TradePrices(window(_)) ==
    PricesOf(SelectSeq(df, LAMBDA e : /\ e.row.action = "T"
                                      /\ window(e.row.ts_recv)))

\* the rows of df4 under a reading `window` of "during market hours": they
\* are trades, received in the window, priced strictly between the 1% and
\* the 99% quantile of the trade prices in the window, and have only the
\* columns ts_recv and price; a trade in the window priced at either
\* quantile is not in df4.
CleanedRows(window(_)) ==
    LET q99 == quantile(TradePrices(window), 99)
        q01 == quantile(TradePrices(window), 1)
    IN  /\ \A i \in 1..Len(df4) :
            /\ Source(df4[i]).action = "T"
            /\ window(Source(df4[i]).ts_recv)
            /\ df4[i].row.ts_recv.ns = Source(df4[i]).ts_recv
            /\ df4[i].row.price = Source(df4[i]).price
            /\ Above(df4[i].row.price, q01)
            /\ Below(df4[i].row.price, q99)
            /\ DOMAIN df4[i].row = {"ts_recv", "price"}
        /\ \A i \in 1..Len(df) :
            (/\ df[i].row.action = "T"
             /\ window(df[i].row.ts_recv)
             /\ 100 * df[i].row.price \in {q01.v, q99.v})
                => df[i].label \notin Labels(df4)

\* C16 as stated: every row kept in df4 is a trade (action "T") whose
\* ts_recv is inside the closed interval [market open, market close] in
\* nanoseconds and whose price is strictly greater than the 1% quantile and
\* strictly less than the 99% quantile of the trade prices inside that
\* window; a row priced at either quantile is dropped, and only the columns
\* ts_recv and price are kept.
C16_CleanedRowsInMarketHours ==
    Cleaned => CleanedRows(WithinMarketHours)

\* What holds of df4 instead: the same, with "inside the market hours" read
\* as the comparison the frame makes, on ts_recv rounded to a float64.
CleanedRowsAsCompared ==
    Cleaned => CleanedRows(InMarketHours)

\* a middle-priced trade within half an Ulp before the open is kept
KeptOutsideMarketHours ==
    /\ clean_pc = "done"
    /\ \E i \in 1..Len(df4) : ~WithinMarketHours(Source(df4[i]).ts_recv)

-----------------------------------------------------------------------------
(* C2, C3: load_env_vars_from_file.                                        *)

AllNames == Names \cup {OtherName}

\* the value of a variable, or "unset"
EnvAt(env, name) == IF name \in DOMAIN env THEN env[name] ELSE "unset"

\* the lines before position upto that are export NAME='...' for this name
ExportsOf(name, upto) ==
    {i \in 1..(upto - 1) : \E w \in Values : script[i] = ExportLine(name, w)}

SetMax(S) == CHOOSE x \in S : \A y \in S : y <= x

\* C2: of the lines the loader has gone through, a line export NAME='VALUE'
\* whose VALUE has neither a space nor "=" leaves os.environ[NAME] = VALUE
\* without the quotes (where a script exports one NAME more than once, the
\* line meant is the last one of that NAME: no os.environ can hold two
\* values); lines that do not start with "export" set nothing, and a
\* variable that none of these lines names keeps the value it had (or stays
\* unset).
C2_LoadsReadmeLines ==
    \A name \in AllNames :
        LET done == ExportsOf(name, line_no) IN
        IF done = {} THEN EnvAt(environ, name) = EnvAt(Environ0, name)
        ELSE \A v \in PlainValues :
                script[SetMax(done)] = ExportLine(name, v)
                    => EnvAt(environ, name) = v

\* C2 witness: the loader returned from a script with a #!/bin/sh line and an
\* export line, whose variable now holds the unquoted value.
C2_Witness ==
    /\ loader_pc = "done"
    /\ \E i \in 1..Len(script) : script[i] = ShebangLine
    /\ \E i \in 1..Len(script) :
          /\ script[i] = ExportLine(<<"P">>, <<"v", "2">>)
          /\ EnvAt(environ, <<"P">>) = <<"v", "2">>
    /\ EnvAt(environ, OtherName) = <<"h">>

\* C3 (read for the last line of each NAME, as C2 is): whatever the quoted VALUE
\* is, a "=" or a space in it included, os.environ[NAME] is the whole VALUE
\* after the call.
C3_LoadsAnyValue ==
    loader_pc = "done" =>
        \A name \in Names :
            LET done == ExportsOf(name, line_no) IN
            done # {} =>
                \A v \in Values :
                    script[SetMax(done)] = ExportLine(name, v)
                        => EnvAt(environ, name) = v

====
